---- MODULE Spec2Model ----
(***************************************************************************)
(* The McGill raw-dataset adapters (generations Alpha, Beta, Gamma, Delta  *)
(* and the Gamma/Delta diagnostic pump-off variants) as a state machine.   *)
(*                                                                         *)
(* State: the class in use, the directory tree the dataset is built on,    *)
(* the dataset object, the lru_cache of Alpha's background property, the   *)
(* record of the last call (its arguments, the exception it raised, the    *)
(* value it returned and the files it opened) and, as history, the         *)
(* instances whose background has been computed.                           *)
(*                                                                         *)
(* Conventions.                                                            *)
(*  - A float is [neg, mag]: sign bit and magnitude in thousandths, so     *)
(*    that -0.0 and 0.0 are different objects that compare equal.          *)
(*  - A path is a sequence of components, a component a sequence of        *)
(*    tokens (words, digits, punctuation); "w in k" on strings is token    *)
(*    containment.                                                         *)
(*  - An image is one pixel; an array returned to the caller is the        *)
(*    rational [num, den] (den > 1 only after Alpha's average).            *)
(***************************************************************************)
EXTENDS Integers, Sequences, FiniteSets, TLC

VARIABLES cls, disk, self, cache, call, computed

vars == <<cls, disk, self, cache, call, computed>>

-----------------------------------------------------------------------------
(* Bounds of the model.                                                    *)

\* pixel intensities are 0..MaxPix
MaxPix == 1
\* epoch timestamps are 1..MaxTs
MaxTs == 3
\* rows of a timestamp table in the nearest-lookup slice
MaxRows == 3
\* lines of a tag file in the tag-file slice
MaxLines == 2
\* image files of an Alpha directory
MaxFiles == 2
\* nscans of metadata.cfg is 0..MaxScans
MaxScans == 2

-----------------------------------------------------------------------------
(* Generic helpers.                                                        *)

Range(s) == {s[i] : i \in DOMAIN s}

SeqsUpTo(S, n) == UNION {[1..k -> S] : k \in 0..n}

NoDup(s) == \A i, j \in DOMAIN s : i # j => s[i] # s[j]

RECURSIVE SumSeq(_)
SumSeq(s) == IF s = <<>> THEN 0 ELSE s[1] + SumSeq(Tail(s))

Max(a, b) == IF a >= b THEN a ELSE b

Least(S) == CHOOSE x \in S : \A y \in S : x <= y

Greatest(S) == CHOOSE x \in S : \A y \in S : x >= y

Abs(x) == IF x < 0 THEN -x ELSE x

\* every ordering of a finite set as a sequence
Perms(S) == {s \in [1..Cardinality(S) -> S] : Range(s) = S}

-----------------------------------------------------------------------------
(* Python floats, digits and format specifications.                        *)

Float(neg, mag) == [neg |-> neg, mag |-> mag]

\* the signed value in thousandths: what <, == and sorted() compare
Val(f) == IF f.neg THEN 0 - f.mag ELSE f.mag

\* Python's == on floats: -0.0 == 0.0
FEq(a, b) == Val(a) = Val(b)

\* "x in seq" on a tuple of floats
FIn(x, s) == \E i \in DOMAIN s : FEq(s[i], x)

FromInt(n) == Float(n < 0, 1000 * Abs(n))

DigitTok == <<"0", "1", "2", "3", "4", "5", "6", "7", "8", "9">>

RECURSIVE DigitsOf(_)
DigitsOf(n) == IF n < 10 THEN <<n>> ELSE DigitsOf(n \div 10) \o <<n % 10>>

RECURSIVE ZFill(_, _)
ZFill(s, w) == IF Len(s) >= w THEN s ELSE ZFill(<<0>> \o s, w)

RECURSIVE NumOf(_)
NumOf(ds) == IF ds = <<>> THEN 0 ELSE 10 * NumOf(SubSeq(ds, 1, Len(ds) - 1)) + ds[Len(ds)]

Toks(ds) == [i \in DOMAIN ds |-> DigitTok[ds[i] + 1]]

Pow10(k) == CASE k = 0 -> 1 [] k = 1 -> 10 [] k = 2 -> 100 [] OTHER -> 1000

\* float("<sign><ip>.<frac>") for a spelling with at most three decimals
ParseFloat(sp) ==
    Float(sp.sign = <<"-">>,
          1000 * NumOf(sp.ip) + NumOf(sp.frac) * Pow10(3 - Len(sp.frac)))

\* f"{x:.2f}": the sign only when negative (-0.0 included), two decimals.
\* Magnitudes are kept off the rounding ties (mag % 10 # 5).
Format2f(x) ==
    LET h == (x.mag + 5) \div 10
    IN  [sign |-> IF x.neg THEN <<"-">> ELSE <<>>,
         ip |-> DigitsOf(h \div 100),
         frac |-> ZFill(DigitsOf(h % 100), 2)]

\* f"{x:+010.3f}": always a sign, zero-padded to ten characters in all
FormatPlus010_3f(x) ==
    <<IF x.neg THEN "-" ELSE "+">>
      \o Toks(ZFill(DigitsOf(x.mag \div 1000), 5))
      \o <<".">> \o Toks(ZFill(DigitsOf(x.mag % 1000), 3))

\* f"{x:010.0f}": rounded to an integer, zero-padded to ten characters
Format010_0f(x) ==
    LET n == (x.mag + 500) \div 1000
    IN  IF x.neg THEN <<"-">> \o Toks(ZFill(DigitsOf(n), 9))
        ELSE Toks(ZFill(DigitsOf(n), 10))

\* f"{n:04d}" for n >= 0
Format04d(n) == Toks(ZFill(DigitsOf(n), 4))

-----------------------------------------------------------------------------
(* Paths.                                                                  *)

\* os.path.join / Path.__truediv__ of a directory and a relative path
Join(dir, rel) == dir \o rel

\* Path.parent
Parent(p) == SubSeq(p, 1, Len(p) - 1)

\* "w in k" for a path string k
Contains(k, w) == \E i \in DOMAIN k : \E j \in DOMAIN k[i] : k[i][j] = w

\* Path.relative_to(source)
RelativeTo(p, src) == SubSeq(p, Len(src) + 1, Len(p))

ScanDirGamma(scan) == <<"scan_">> \o Format04d(scan)

PumponName(timedelay) == <<"pumpon_">> \o FormatPlus010_3f(timedelay) \o <<"ps.tif">>

PumpoffName(timedelay) == <<"pump_off", "_epoch_">> \o Format010_0f(timedelay) \o <<"s.tif">>

-----------------------------------------------------------------------------
(* The directory tree and the dataset object.                              *)

\* the outcome of a call: the exception raised ("" when it returned), the
\* value returned (<<>> when none) and the files opened, in order
Res(raised, value, opened) == [raised |-> raised, value |-> value, opened |-> opened]

Raise(exc, opened) == Res(exc, <<>>, opened)

NoMeta == [fluence |-> 0, current |-> 0, exposure |-> 0, energy |-> 0]

NoObject ==
    [alive |-> FALSE, source |-> <<>>, scans |-> <<>>, time_points |-> <<>>,
     timestamps |-> <<>>, ecounts |-> <<>>, meta |-> NoMeta]

\* the lru_cache of background: empty, or one entry keyed by the instance
\* ("self", or "other" for a second dataset of the class)
NoCache == [full |-> FALSE, key |-> "", value |-> <<>>]

\* os.path.exists / Path.exists of an absolute path
Exists(d, p) ==
    /\ d.isdir
    /\ Len(p) > Len(d.source)
    /\ SubSeq(p, 1, Len(d.source)) = d.source
    /\ RelativeTo(p, d.source) \in d.files

\* the pixel diffread returns for an existing image: a pump-on frame holds
\* pix_data, any other frame (laser background, pump-off, dark) pix_bg
diffread(d, p) ==
    IF p[Len(p)][1] \in {"pumpon_", "data.timedelay."} THEN d.pix_data ELSE d.pix_bg

Image(num, den) == [num |-> num, den |-> den]

-----------------------------------------------------------------------------
(* Key-value stores (insertion-ordered dicts) and the CSV tables.          *)

HasKey(kv, k) == \E i \in DOMAIN kv : kv[i].k = k

GetItem(kv, k) == kv[CHOOSE i \in DOMAIN kv : kv[i].k = k].v

SetItem(kv, k, v) ==
    IF HasKey(kv, k)
    THEN [i \in DOMAIN kv |-> IF kv[i].k = k THEN [k |-> k, v |-> v] ELSE kv[i]]
    ELSE Append(kv, [k |-> k, v |-> v])

\* Gamma: {Path(row[0]): float(row[1]) for row in reader}
RECURSIVE csv_to_kvstore_Gamma(_)
csv_to_kvstore_Gamma(rows) ==
    IF rows = <<>> THEN <<>>
    ELSE LET r == rows[Len(rows)]
         IN  SetItem(csv_to_kvstore_Gamma(SubSeq(rows, 1, Len(rows) - 1)), r.path, r.v)

\* Delta: the key is os.path.join(sname, row[0]), a string
RECURSIVE csv_to_kvstore_Delta(_, _)
csv_to_kvstore_Delta(sname, rows) ==
    IF rows = <<>> THEN <<>>
    ELSE LET r == rows[Len(rows)]
         IN  SetItem(csv_to_kvstore_Delta(sname, SubSeq(rows, 1, Len(rows) - 1)),
                     Join(sname, r.path), r.v)

-----------------------------------------------------------------------------
(* Nearest-timestamp lookup.                                               *)

\* the dict comprehension {abs(v) - timestamp: k for (k, v) in items}, over
\* the items its "if" clause kept
RECURSIVE DiffDict(_, _)
DiffDict(items, timestamp) ==
    IF items = <<>> THEN <<>>
    ELSE LET it == items[Len(items)]
         IN  SetItem(DiffDict(SubSeq(items, 1, Len(items) - 1), timestamp),
                     Abs(it.v) - timestamp, it.k)

\* min(fnames.keys()), fnames[...] and the diffread of that file
NearestIn(d, fnames, dir) ==
    IF fnames = <<>> THEN Raise("ValueError", <<>>)
    ELSE LET nearest_timestamp ==
                 CHOOSE m \in {fnames[i].k : i \in DOMAIN fnames} :
                     \A i \in DOMAIN fnames : m <= fnames[i].k
             p == Join(dir, GetItem(fnames, nearest_timestamp))
         IN  IF Exists(d, p) THEN Res("", <<diffread(d, p)>>, <<p>>)
             ELSE Raise("IOError", <<>>)

nearest_Gamma(d, obj, timestamp, sub) ==
    LET keep(it) == Parent(it.k) = <<<<sub>>>>
    IN  NearestIn(d, DiffDict(SelectSeq(obj.timestamps, keep), timestamp), obj.source)

\* os.path.join(self.source, k) is k itself: k is absolute
nearest_Delta(d, obj, timestamp, sub) ==
    LET keep(it) == Contains(it.k, sub)
    IN  NearestIn(d, DiffDict(SelectSeq(obj.timestamps, keep), timestamp), <<>>)

-----------------------------------------------------------------------------
(* Alpha: the tag file.                                                    *)

IsSpace(tok) == tok \in {" ", "\t", "\n"}

IsDigitTok(tok) == \E i \in DOMAIN DigitTok : DigitTok[i] = tok

DigitVal(tok) == (CHOOSE i \in DOMAIN DigitTok : DigitTok[i] = tok) - 1

\* str.lower on a token
LowerTok(tok) ==
    CASE tok = "Fluence" -> "fluence"
      [] tok = "FLUENCE" -> "fluence"
      [] tok = "Exposure" -> "exposure"
      [] tok = "Current" -> "current"
      [] tok = "Energy" -> "energy"
      [] OTHER -> tok

Lower(text) == [i \in DOMAIN text |-> LowerTok(text[i])]

\* sub("\s+", "", line)
RemoveSpace(line) == LET keep(tok) == ~IsSpace(tok) IN SelectSeq(line, keep)

\* line.split("="): the pieces between the "=" tokens
RECURSIVE Split(_)
Split(text) ==
    IF \A i \in DOMAIN text : text[i] # "=" THEN <<text>>
    ELSE LET i == CHOOSE i \in DOMAIN text :
                      text[i] = "=" /\ \A j \in 1..(i - 1) : text[j] # "="
         IN  <<SubSeq(text, 1, i - 1)>> \o Split(SubSeq(text, i + 1, Len(text)))

\* value.strip("s"): every leading and every trailing "s"
RECURSIVE StripS(_)
StripS(text) ==
    IF text = <<>> THEN text
    ELSE IF text[1] = "s" THEN StripS(Tail(text))
    ELSE IF text[Len(text)] = "s" THEN StripS(SubSeq(text, 1, Len(text) - 1))
    ELSE text

\* float(text) succeeds on a non-empty digit string (the only numerals of
\* the token alphabet)
IsNumeric(text) == text # <<>> /\ \A i \in DOMAIN text : IsDigitTok(text[i])

FloatOf(text) == NumOf([i \in DOMAIN text |-> DigitVal(text[i])])

\* the value with value.rstrip("s") in place of value.strip("s")
TagValue_rstrip(value) ==
    LET NonS == {i \in DOMAIN value : value[i] # "s"}
        text == IF NonS = {} THEN <<>> ELSE SubSeq(value, 1, Greatest(NonS))
    IN  IF IsNumeric(text) THEN <<FloatOf(text)>> ELSE <<>>

\* the value stored for the text right of "=": <<x>> for float x, <<>> for None
TagValue(value) ==
    IF IsNumeric(StripS(value)) THEN <<FloatOf(StripS(value))>> ELSE <<>>

\* the loop body of parse_tagfile on the lines read so far; "ValueError" when
\* a line does not unpack into key and value
RECURSIVE TagLoop(_)
TagLoop(lines) ==
    IF lines = <<>> THEN [raised |-> "", metadata |-> <<>>]
    ELSE LET before == TagLoop(SubSeq(lines, 1, Len(lines) - 1))
             parts == Split(RemoveSpace(lines[Len(lines)]))
         IN  IF before.raised # "" THEN before
             ELSE IF Len(parts) # 2 THEN [raised |-> "ValueError", metadata |-> <<>>]
             ELSE [raised |-> "",
                   metadata |-> SetItem(before.metadata, Lower(parts[1]), TagValue(parts[2]))]

TagPath(source) == Join(source, <<<<"tagfile.txt">>>>)

parse_tagfile(d) ==
    IF ~(d.isdir /\ d.tagfile.present) THEN Raise("IOError", <<>>)
    ELSE LET r == TagLoop(d.tagfile.lines)
         IN  IF r.raised # "" THEN Raise(r.raised, <<TagPath(d.source)>>)
             ELSE Res("", <<r.metadata>>, <<TagPath(d.source)>>)

\* _metadata.get(key) or default
GetOr(metadata, key, default) ==
    IF HasKey(metadata, <<key>>) /\ GetItem(metadata, <<key>>) \notin {<<>>, <<0>>}
    THEN GetItem(metadata, <<key>>)[1]
    ELSE default

-----------------------------------------------------------------------------
(* Constructors.  Each yields the set of possible [obj, res]: the object   *)
(* the caller gets (NoObject when __init__ raised) and the call's outcome. *)

Built(obj, opened) == [obj |-> obj, res |-> Res("", <<>>, opened)]

Failed(exc, opened) == [obj |-> NoObject, res |-> Raise(exc, opened)]

Sorted(tp) == \A i, j \in DOMAIN tp : i < j => Val(tp[i]) <= Val(tp[j])

\* Alpha.__init__, from the listing of the directory on: tuple(set(int)) in
\* any order for the scans; the distinct delay strings, sorted by their float
\* value, mapped to floats for the time points
AlphaListing(d, metadata, opened) ==
    LET scanset == {NumOf(f.scan) : f \in d.alpha_files}
        time_data == {f.delay : f \in d.alpha_files}
        orders == {[i \in DOMAIN p |-> ParseFloat(p[i])] : p \in Perms(time_data)}
    IN  {Built([alive |-> TRUE, source |-> d.source, scans |-> sc, time_points |-> tp,
                timestamps |-> <<>>, ecounts |-> <<>>,
                meta |-> [fluence |-> GetOr(metadata, "fluence", 0),
                          current |-> GetOr(metadata, "current", 0),
                          exposure |-> GetOr(metadata, "exposure", 0),
                          energy |-> GetOr(metadata, "energy", 90)]],
               opened) :
           sc \in Perms(scanset), tp \in {o \in orders : Sorted(o)}}

init_Alpha(d) ==
    IF ~d.isdir THEN {Failed("ValueError", <<>>)}
    ELSE LET t == parse_tagfile(d)
         IN  IF t.raised # "" THEN {Failed(t.raised, t.opened)}
             ELSE AlphaListing(d, t.value[1], t.opened)

CfgPath(source) == Join(source, <<<<"metadata.cfg">>>>)

\* parse_metadata with scans as list(range(nscans))
parse_metadata_range0(d) ==
    IF ~d.cfg.present THEN Raise("KeyError", <<>>)
    ELSE Res("",
             <<[scans |-> [i \in 1..Max(d.cfg.nscans, 0) |-> i - 1],
                time_points |-> d.cfg.time_points]>>,
             <<CfgPath(d.source)>>)

\* parse_metadata: ConfigParser.read skips a file it cannot open and the
\* section lookup then raises KeyError; scans is list(range(1, nscans + 1)),
\* time_points the "time points" list as eval returns it
parse_metadata(d) ==
    IF ~d.cfg.present THEN Raise("KeyError", <<>>)
    ELSE Res("",
             <<[scans |-> [i \in 1..Max(d.cfg.nscans, 0) |-> i],
                time_points |-> d.cfg.time_points]>>,
             <<CfgPath(d.source)>>)

\* Beta.__init__ with the directory check left out
init_Beta_unchecked(d) ==
    LET m == parse_metadata(d)
    IN  IF m.raised # "" THEN {Failed(m.raised, m.opened)}
        ELSE {Built([alive |-> TRUE, source |-> d.source,
                     scans |-> m.value[1].scans,
                     time_points |-> m.value[1].time_points,
                     timestamps |-> <<>>, ecounts |-> <<>>, meta |-> NoMeta],
                    m.opened)}

init_Beta(d) ==
    IF ~d.isdir THEN {Failed("ValueError", <<>>)}
    ELSE LET m == parse_metadata(d)
         IN  IF m.raised # "" THEN {Failed(m.raised, m.opened)}
             ELSE {Built([alive |-> TRUE, source |-> d.source,
                          scans |-> m.value[1].scans,
                          time_points |-> m.value[1].time_points,
                          timestamps |-> <<>>, ecounts |-> <<>>, meta |-> NoMeta],
                         m.opened)}

CsvPaths(source) ==
    <<Join(source, <<<<"timestamps.csv">>>>), Join(source, <<<<"ecounts.csv">>>>),
      Join(source, <<<<"room_temp.csv">>>>), Join(source, <<<<"room_humidity.csv">>>>)>>

\* Gamma.__init__; the four CSV tables are taken to be present in a dataset
\* directory, and the room tables are loaded but not kept in the model
init_Gamma(d) ==
    IF ~d.isdir THEN {Failed("ValueError", <<>>)}
    ELSE LET m == parse_metadata(d)
         IN  IF m.raised # "" THEN {Failed(m.raised, m.opened)}
             ELSE {Built([alive |-> TRUE, source |-> d.source,
                          scans |-> m.value[1].scans,
                          time_points |-> m.value[1].time_points,
                          timestamps |-> csv_to_kvstore_Gamma(d.timestamps),
                          ecounts |-> csv_to_kvstore_Gamma(d.ecounts),
                          meta |-> NoMeta],
                         m.opened \o CsvPaths(d.source))}

init_Delta(d) ==
    IF ~d.isdir THEN {Failed("ValueError", <<>>)}
    ELSE LET m == parse_metadata(d)
         IN  IF m.raised # "" THEN {Failed(m.raised, m.opened)}
             ELSE {Built([alive |-> TRUE, source |-> d.source,
                          scans |-> m.value[1].scans,
                          time_points |-> m.value[1].time_points,
                          timestamps |-> csv_to_kvstore_Delta(d.source, d.timestamps),
                          ecounts |-> csv_to_kvstore_Delta(d.source, d.ecounts),
                          meta |-> NoMeta],
                         m.opened \o CsvPaths(d.source))}

\* sorted(values): every non-decreasing ordering of the values of the items
SortedValues(items) ==
    {[i \in DOMAIN p |-> FromInt(items[p[i]].v)] : p \in
        {q \in Perms(DOMAIN items) :
            \A i, j \in DOMAIN q : i < j => items[q[i]].v <= items[q[j]].v}}

init_GammaPumpoff(d) ==
    LET keep(it) == Parent(it.k) = <<<<"pump_off">>>>
    IN  UNION {IF b.res.raised # "" THEN {b}
               ELSE {Built([b.obj EXCEPT !.scans = <<1>>, !.time_points = tp],
                           b.res.opened) :
                        tp \in SortedValues(SelectSeq(b.obj.timestamps, keep))} :
               b \in init_Gamma(d)}

\* the keys of the Delta tables are strings: k.parent raises AttributeError
\* on the first item, and only an empty table gets past the comprehension
init_DeltaPumpoff(d) ==
    {IF b.res.raised # "" THEN b
     ELSE IF b.obj.timestamps # <<>> THEN Failed("AttributeError", b.res.opened)
     ELSE Built([b.obj EXCEPT !.scans = <<1>>, !.time_points = <<>>], b.res.opened) :
        b \in init_Delta(d)}

-----------------------------------------------------------------------------
(* Methods.  Each yields the set of possible [res, cache]: the outcome of  *)
(* the call and the lru_cache of Alpha's background after it.              *)

Out(res, c) == [res |-> res, cache |-> c]

\* iris.check_raw_bounds: the wrapped method runs only for a scan in
\* self.scans and a time-delay in self.time_points; ValueError otherwise
check_raw_bounds(obj, c, timedelay, scan, method) ==
    IF scan \in Range(obj.scans) /\ FIn(timedelay, obj.time_points)
    THEN method
    ELSE {Out(Raise("ValueError", <<>>), c)}

\* Alpha: 'data.timedelay.+1.00.nscan.04.pumpon.tif'
AlphaName(timedelay, scan) ==
    LET sign == IF Val(timedelay) < 0 THEN <<>> ELSE <<"+">>
        str_time == Format2f(timedelay)
    IN  [delay |-> [sign |-> sign \o str_time.sign, ip |-> str_time.ip,
                    frac |-> str_time.frac],
         scan |-> ZFill(DigitsOf(scan), 2)]

AlphaPath(source, f) ==
    Join(source, <<<<"data.timedelay.">> \o f.delay.sign \o Toks(f.delay.ip) \o <<".">>
                     \o Toks(f.delay.frac) \o <<".nscan.">> \o Toks(f.scan)
                     \o <<".pumpon.tif">>>>)

BackgroundPaths(d) ==
    [i \in DOMAIN d.backgrounds |->
        Join(d.source, <<<<"background.", DigitTok[i + 1], ".pumpon.tif">>>>)]

\* lru_cache(maxsize=1) around the average of the background.*.pumpon.tif
\* images: the wrapper belongs to the function, so every instance of the
\* class goes through the one cache, keyed by the instance; a miss replaces
\* the single entry; average raises on an empty stream and nothing is stored
cached_background(key, paths, pixels, c) ==
    IF c.full /\ c.key = key THEN Out(Res("", c.value, <<>>), c)
    ELSE IF pixels = <<>> THEN Out(Raise("StopIteration", <<>>), c)
    ELSE LET avg == Image(SumSeq(pixels), Len(pixels))
         IN  Out(Res("", <<avg>>, paths), [full |-> TRUE, key |-> key, value |-> <<avg>>])

\* Alpha.background of the dataset
background(d, c) == cached_background("self", BackgroundPaths(d), d.backgrounds, c)

\* Alpha.background of a second dataset, built on another directory
OtherPaths(d) ==
    [i \in DOMAIN d.other_backgrounds |->
        Join(d.other_source, <<<<"background.", DigitTok[i + 1], ".pumpon.tif">>>>)]

background_of_other(d, c) ==
    cached_background("other", OtherPaths(d), d.other_backgrounds, c)

\* im -= self.background without the clamp
Subtract_unclamped(im, bg) == Image(bg.den * im - bg.num, bg.den)

\* im -= self.background; im[im < 0] = 0
SubtractClamped(im, bg) == Image(Max(bg.den * im - bg.num, 0), bg.den)

body_raw_data_Alpha(d, obj, c, timedelay, scan, bgr) ==
    LET filename == AlphaName(timedelay, scan)
        p == AlphaPath(obj.source, filename)
    IN  IF ~(d.isdir /\ filename \in d.alpha_files) THEN {Out(Raise("IOError", <<>>), c)}
        ELSE IF ~bgr THEN {Out(Res("", <<Image(diffread(d, p), 1)>>, <<p>>), c)}
        ELSE LET b == background(d, c)
             IN  IF b.res.raised # "" THEN {Out(Raise(b.res.raised, <<p>>), b.cache)}
                 ELSE {Out(Res("", <<SubtractClamped(diffread(d, p), b.res.value[1])>>,
                               <<p>> \o b.res.opened), b.cache)}

raw_data_Alpha(d, obj, c, timedelay, scan, bgr) ==
    check_raw_bounds(obj, c, timedelay, scan,
                     body_raw_data_Alpha(d, obj, c, timedelay, scan, bgr))

\* Beta: the files of 'scan NNNN' that match pumpon_<delay>ps_*.tif
BetaMatches(d, obj, timedelay, scan) ==
    LET directory == <<"scan ">> \o Format04d(scan)
        prefix == <<"pumpon_">> \o FormatPlus010_3f(timedelay) \o <<"ps_">>
    IN  {f \in d.files :
            /\ Len(f) = 2 /\ f[1] = directory
            /\ Len(f[2]) > Len(prefix)
            /\ SubSeq(f[2], 1, Len(prefix)) = prefix
            /\ f[2][Len(f[2])] = ".tif"}

\* next(iglob(...)) is any one of the matches; the image is returned as read
body_raw_data_Beta(d, obj, c, timedelay, scan) ==
    IF ~d.isdir \/ BetaMatches(d, obj, timedelay, scan) = {}
    THEN {Out(Raise("IOError", <<>>), c)}
    ELSE {Out(Res("", <<Image(diffread(d, f), 1)>>, <<Join(obj.source, f)>>), c) :
             f \in BetaMatches(d, obj, timedelay, scan)}

raw_data_Beta(d, obj, c, timedelay, scan, bgr) ==
    check_raw_bounds(obj, c, timedelay, scan,
                     body_raw_data_Beta(d, obj, c, timedelay, scan))

\* im -= bg, with the background lookup's own failure passed on
Subtract(d, c, fname, bg) ==
    IF bg.raised # "" THEN {Out(Raise(bg.raised, <<fname>>), c)}
    ELSE {Out(Res("", <<Image(diffread(d, fname) - bg.value[1], 1)>>,
                  <<fname>> \o bg.opened), c)}

body_raw_data_Gamma(d, obj, c, timedelay, scan, bgr) ==
    LET fname == Join(obj.source, <<ScanDirGamma(scan), PumponName(timedelay)>>)
        key == RelativeTo(fname, obj.source)
    IN  IF ~Exists(d, fname) THEN {Out(Raise("IOError", <<>>), c)}
        ELSE IF ~bgr THEN {Out(Res("", <<Image(diffread(d, fname), 1)>>, <<fname>>), c)}
        ELSE IF ~HasKey(obj.timestamps, key) THEN {Out(Raise("KeyError", <<fname>>), c)}
        ELSE Subtract(d, c, fname,
                      nearest_Gamma(d, obj, GetItem(obj.timestamps, key),
                                    "laser_background"))

\* Gamma.raw_data without its check_raw_bounds decorator
raw_data_Gamma_undecorated(d, obj, c, timedelay, scan, bgr) ==
    body_raw_data_Gamma(d, obj, c, timedelay, scan, bgr)

raw_data_Gamma(d, obj, c, timedelay, scan, bgr) ==
    check_raw_bounds(obj, c, timedelay, scan,
                     body_raw_data_Gamma(d, obj, c, timedelay, scan, bgr))

body_raw_data_Delta(d, obj, c, timedelay, scan, bgr) ==
    LET fname == Join(obj.source, <<ScanDirGamma(scan), PumponName(timedelay)>>)
    IN  IF ~Exists(d, fname) THEN {Out(Raise("IOError", <<>>), c)}
        ELSE IF ~bgr THEN {Out(Res("", <<Image(diffread(d, fname), 1)>>, <<fname>>), c)}
        ELSE IF ~HasKey(obj.timestamps, fname) THEN {Out(Raise("KeyError", <<fname>>), c)}
        ELSE Subtract(d, c, fname,
                      nearest_Delta(d, obj, GetItem(obj.timestamps, fname),
                                    "laser_background"))

raw_data_Delta(d, obj, c, timedelay, scan, bgr) ==
    check_raw_bounds(obj, c, timedelay, scan,
                     body_raw_data_Delta(d, obj, c, timedelay, scan, bgr))

\* Gamma pump-off: the time-delay is the pump-off timestamp
body_raw_data_GammaPumpoff(d, obj, c, timedelay, scan, bgr) ==
    LET fname == Join(obj.source, <<<<"pump_off">>, PumpoffName(timedelay)>>)
        key == RelativeTo(fname, obj.source)
    IN  IF ~Exists(d, fname) THEN {Out(Raise("IOError", <<>>), c)}
        ELSE IF ~bgr THEN {Out(Res("", <<Image(diffread(d, fname), 1)>>, <<fname>>), c)}
        ELSE IF ~HasKey(obj.timestamps, key) THEN {Out(Raise("KeyError", <<fname>>), c)}
        ELSE Subtract(d, c, fname,
                      nearest_Gamma(d, obj, GetItem(obj.timestamps, key), "dark_image"))

raw_data_GammaPumpoff(d, obj, c, timedelay, scan, bgr) ==
    check_raw_bounds(obj, c, timedelay, scan,
                     body_raw_data_GammaPumpoff(d, obj, c, timedelay, scan, bgr))

\* Delta pump-off: fname is the str os.path.join returns, and fname.exists()
\* raises AttributeError before anything is looked up
body_raw_data_DeltaPumpoff(d, obj, c, timedelay, scan, bgr) ==
    {Out(Raise("AttributeError", <<>>), c)}

raw_data_DeltaPumpoff(d, obj, c, timedelay, scan, bgr) ==
    check_raw_bounds(obj, c, timedelay, scan,
                     body_raw_data_DeltaPumpoff(d, obj, c, timedelay, scan, bgr))

\* Gamma.electron_count: img_fname is not defined, so the return statement
\* raises NameError once the file is found
body_electron_count_Gamma(d, obj, c, timedelay, scan) ==
    LET fname == Join(obj.source, <<ScanDirGamma(scan), PumponName(timedelay)>>)
    IN  IF ~Exists(d, fname) THEN {Out(Raise("IOError", <<>>), c)}
        ELSE {Out(Raise("NameError", <<>>), c)}

electron_count_Gamma(d, obj, c, timedelay, scan) ==
    check_raw_bounds(obj, c, timedelay, scan,
                     body_electron_count_Gamma(d, obj, c, timedelay, scan))

\* Delta.electron_count: fname is a str, and fname.exists() raises
body_electron_count_Delta(d, obj, c, timedelay, scan) ==
    {Out(Raise("AttributeError", <<>>), c)}

electron_count_Delta(d, obj, c, timedelay, scan) ==
    check_raw_bounds(obj, c, timedelay, scan,
                     body_electron_count_Delta(d, obj, c, timedelay, scan))

-----------------------------------------------------------------------------
(* Dispatch on the class.                                                  *)

Classes == {"Alpha", "Beta", "Gamma", "Delta", "GammaPumpoff", "DeltaPumpoff"}

GammaFamily == {"Gamma", "GammaPumpoff"}

DeltaFamily == {"Delta", "DeltaPumpoff"}

init(k, d) ==
    CASE k = "Alpha" -> init_Alpha(d)
      [] k = "Beta" -> init_Beta(d)
      [] k = "Gamma" -> init_Gamma(d)
      [] k = "Delta" -> init_Delta(d)
      [] k = "GammaPumpoff" -> init_GammaPumpoff(d)
      [] k = "DeltaPumpoff" -> init_DeltaPumpoff(d)

raw_data(k, d, obj, c, timedelay, scan, bgr) ==
    CASE k = "Alpha" -> raw_data_Alpha(d, obj, c, timedelay, scan, bgr)
      [] k = "Beta" -> raw_data_Beta(d, obj, c, timedelay, scan, bgr)
      [] k = "Gamma" -> raw_data_Gamma(d, obj, c, timedelay, scan, bgr)
      [] k = "Delta" -> raw_data_Delta(d, obj, c, timedelay, scan, bgr)
      [] k = "GammaPumpoff" -> raw_data_GammaPumpoff(d, obj, c, timedelay, scan, bgr)
      [] k = "DeltaPumpoff" -> raw_data_DeltaPumpoff(d, obj, c, timedelay, scan, bgr)

electron_count(k, d, obj, c, timedelay, scan) ==
    IF k \in GammaFamily THEN electron_count_Gamma(d, obj, c, timedelay, scan)
    ELSE electron_count_Delta(d, obj, c, timedelay, scan)

nearest(k, d, obj, timestamp, sub) ==
    IF k \in GammaFamily THEN nearest_Gamma(d, obj, timestamp, sub)
    ELSE nearest_Delta(d, obj, timestamp, sub)

-----------------------------------------------------------------------------
(* Arguments of the calls.                                                 *)

Pixels == 0..MaxPix

Stamps == 1..MaxTs

TimeArgs == {FromInt(1), FromInt(2), Float(TRUE, 500)}

ScanArgs == {1, 2}

SubDirs == {"laser_background", "pump_off", "dark_image"}

\* the time points a caller sets through update_metadata
MetaTimePoints == {<<FromInt(1)>>}

NoArgs ==
    [timedelay |-> FromInt(0), scan |-> 0, bgr |-> FALSE, timestamp |-> 0, sub |-> ""]

Call(op, args, res) ==
    [op |-> op, timedelay |-> args.timedelay, scan |-> args.scan, bgr |-> args.bgr,
     timestamp |-> args.timestamp, sub |-> args.sub,
     raised |-> res.raised, value |-> res.value, opened |-> res.opened]

NoCall == Call("", NoArgs, Res("", <<>>, <<>>))

-----------------------------------------------------------------------------
(* Actions.                                                                *)

\* dataset = Class(source)
Construct ==
    /\ ~self.alive
    /\ \E b \in init(cls, disk) :
          /\ self' = b.obj
          /\ call' = Call("__init__", NoArgs, b.res)
    /\ UNCHANGED <<cls, disk, cache, computed>>

\* dataset.raw_data(timedelay, scan, bgr=bgr), for a time-delay of the
\* caller's or one read back from dataset.time_points
RawData ==
    /\ self.alive
    /\ \E timedelay \in TimeArgs \cup Range(self.time_points), scan \in ScanArgs,
          bgr \in BOOLEAN :
          \E o \in raw_data(cls, disk, self, cache, timedelay, scan, bgr) :
             /\ call' = Call("raw_data",
                             [NoArgs EXCEPT !.timedelay = timedelay, !.scan = scan,
                                            !.bgr = bgr], o.res)
             /\ cache' = o.cache
             /\ computed' = IF cls = "Alpha" /\ bgr /\ o.res.raised = ""
                             THEN computed \cup {"self"} ELSE computed
    /\ UNCHANGED <<cls, disk, self>>

\* dataset.electron_count(timedelay, scan)
ElectronCount ==
    /\ self.alive
    /\ cls \in GammaFamily \cup DeltaFamily
    /\ \E timedelay \in TimeArgs, scan \in ScanArgs :
          \E o \in electron_count(cls, disk, self, cache, timedelay, scan) :
             /\ call' = Call("electron_count",
                             [NoArgs EXCEPT !.timedelay = timedelay, !.scan = scan], o.res)
             /\ cache' = o.cache
    /\ UNCHANGED <<cls, disk, self, computed>>

\* dataset.nearest_laserbg(t), dataset.nearest_pumpoff(t), dataset.nearest_dark(t)
Nearest ==
    /\ self.alive
    /\ cls \in GammaFamily \cup DeltaFamily
    /\ \E timestamp \in Stamps, sub \in SubDirs :
          call' = Call("nearest", [NoArgs EXCEPT !.timestamp = timestamp, !.sub = sub],
                       nearest(cls, disk, self, timestamp, sub))
    /\ UNCHANGED <<cls, disk, self, cache, computed>>

\* McGillRawDatasetAlpha.parse_tagfile(join(source, "tagfile.txt"))
ParseTagfile ==
    /\ call' = Call("parse_tagfile", NoArgs, parse_tagfile(disk))
    /\ UNCHANGED <<cls, disk, self, cache, computed>>

\* the metadata setter the dataset inherits from the framework's base class
UpdateMetadata ==
    /\ self.alive
    /\ \E tp \in MetaTimePoints :
          /\ self' = [self EXCEPT !.time_points = tp]
          /\ call' = Call("update_metadata", NoArgs, Res("", <<>>, <<>>))
    /\ UNCHANGED <<cls, disk, cache, computed>>

\* other.background, for a second Alpha dataset in the same process
BackgroundOfOther ==
    /\ cls = "Alpha"
    /\ LET o == background_of_other(disk, cache)
       IN  /\ call' = Call("other_background", NoArgs, o.res)
           /\ cache' = o.cache
           /\ computed' = IF o.res.raised = "" THEN computed \cup {"other"} ELSE computed
    /\ UNCHANGED <<cls, disk, self>>

Next ==
    \/ Construct \/ RawData \/ ElectronCount \/ Nearest \/ ParseTagfile
    \/ UpdateMetadata \/ BackgroundOfOther

-----------------------------------------------------------------------------
(* The directory trees the datasets are built on.                          *)

Src == <<<<"data">>, <<"run1">>>>

\* the directory of a second dataset
SrcOther == <<<<"data">>, <<"run2">>>>

\* a dataset directory under a directory named after laser backgrounds
SrcOdd == <<<<"data">>, <<"laser_background", "_tests">>, <<"run1">>>>

NoTagfile == [present |-> FALSE, lines |-> <<>>]

NoCfg == [present |-> FALSE, nscans |-> 0, time_points |-> <<>>]

BlankDisk ==
    [isdir |-> TRUE, source |-> Src, tagfile |-> NoTagfile, alpha_files |-> {},
     backgrounds |-> <<>>, cfg |-> NoCfg, files |-> {}, timestamps |-> <<>>,
     ecounts |-> <<>>, pix_data |-> 1, pix_bg |-> 0,
     other_source |-> SrcOther, other_backgrounds |-> <<>>]

\* a source that is not a directory holds nothing
NoDir == [BlankDisk EXCEPT !.isdir = FALSE, !.pix_data = 0]

Spelling(sign, ip, frac) == [sign |-> <<sign>>, ip |-> ip, frac |-> frac]

\* '+1.0', '+1.00' and '-0.50'
Spellings == {Spelling("+", <<1>>, <<0>>), Spelling("+", <<1>>, <<0, 0>>),
              Spelling("-", <<0>>, <<5, 0>>)}

\* the image files 'data.timedelay.<delay>.nscan.<NN>.pumpon.tif'
AlphaNames == [delay : Spellings, scan : {<<0, 0>>, <<0, 1>>, <<0, 2>>}]

AlphaFileSets == {fs \in SUBSET AlphaNames : Cardinality(fs) <= MaxFiles}

GoodTag == [present |-> TRUE,
            lines |-> <<<<"Fluence", " ", "=", " ", "5", "\n">>,
                        <<"exposure", "=", "2", "s", "\n">>>>]

AlphaDisk(tagfile, fs, bgs, pix) ==
    [BlankDisk EXCEPT !.tagfile = tagfile, !.alpha_files = fs, !.backgrounds = bgs,
                      !.pix_data = pix]

Cfg(nscans, tp) == [present |-> TRUE, nscans |-> nscans, time_points |-> tp]

CfgTimeLists == SeqsUpTo({FromInt(1), FromInt(2)}, 2)

\* 'scan NNNN/pumpon_<delay>ps_<stamp>.tif'
BetaFile(scan, timedelay, stamp) ==
    <<<<"scan ">> \o Format04d(scan),
      <<"pumpon_">> \o FormatPlus010_3f(timedelay) \o <<"ps_", stamp, ".tif">>>>

BetaFiles == {BetaFile(1, FromInt(1), "a"), BetaFile(1, FromInt(1), "b"),
              BetaFile(2, FromInt(2), "a")}

BetaDisk(cfg, fs, pix) == [BlankDisk EXCEPT !.cfg = cfg, !.files = fs, !.pix_data = pix]

\* 'scan_NNNN/pumpon_<delay>ps.tif'
ScanImg(scan, timedelay) == <<ScanDirGamma(scan), PumponName(timedelay)>>

LaserA == <<<<"laser_background">>, <<"a.tif">>>>

LaserB == <<<<"laser_background">>, <<"b.tif">>>>

PumpOff(n) == <<<<"pump_off">>, PumpoffName(FromInt(n))>>

Dark == <<<<"dark_image">>, <<"d.tif">>>>

Row(path, v) == [path |-> path, v |-> v]

Paths(rows) == {rows[i].path : i \in DOMAIN rows}

GammaDisk(source, cfg, rows, fs, pix, bg) ==
    [BlankDisk EXCEPT !.source = source, !.cfg = cfg, !.timestamps = rows, !.files = fs,
                      !.pix_data = pix, !.pix_bg = bg]

\* the timestamp tables of the lifecycle slice
MainTables ==
    {<<>>, <<Row(ScanImg(1, FromInt(1)), 2), Row(LaserA, 1)>>}
      \cup {<<Row(PumpOff(1), a), Row(PumpOff(2), b)>> : a, b \in 1..2}

\* the images on disk: the pump-on frame or not, the other frames of the
\* table or none
GammaFileSets(rows) ==
    {x \cup y : x \in SUBSET {ScanImg(1, FromInt(1))},
                y \in {{}, Paths(rows) \ {ScanImg(1, FromInt(1))}}}

-----------------------------------------------------------------------------
(* The lifecycle slice: every class, on small directories.                 *)

MainWorlds ==
    {[cls |-> k, disk |-> NoDir] : k \in Classes}
      \cup {[cls |-> "Alpha", disk |-> AlphaDisk(NoTagfile, {}, <<>>, 1)]}
      \cup {[cls |-> "Alpha", disk |-> AlphaDisk(GoodTag, fs, <<1>>, 1)] :
               fs \in AlphaFileSets}
      \cup {[cls |-> k, disk |-> BlankDisk] : k \in Classes \ {"Alpha"}}
      \cup {[cls |-> "Beta", disk |-> BetaDisk(Cfg(n, tp), fs, 1)] :
               n \in 0..MaxScans, tp \in CfgTimeLists, fs \in SUBSET BetaFiles}
      \cup UNION {{[cls |-> k, disk |-> GammaDisk(Src, Cfg(n, tp), rows, fs, 1, 0)] :
                      k \in GammaFamily \cup DeltaFamily, n \in 1..MaxScans,
                      tp \in CfgTimeLists, fs \in GammaFileSets(rows)} :
                   rows \in MainTables}

InitWith(worlds) ==
    /\ \E w \in worlds : cls = w.cls /\ disk = w.disk
    /\ self = NoObject
    /\ cache = NoCache
    /\ call = NoCall
    /\ computed = {}

Init == InitWith(MainWorlds)

Spec == Init /\ [][Next]_vars

-----------------------------------------------------------------------------
(* The nearest-lookup slice: Gamma and Delta on every small timestamp      *)
(* table, in a plainly named directory and in one named after laser        *)
(* backgrounds, and one Alpha directory.  The rows of a table carry        *)
(* distinct paths.                                                         *)

TablePaths == {ScanImg(1, FromInt(1)), LaserA, LaserB, PumpOff(1)}

Tables ==
    {rows \in SeqsUpTo([path : TablePaths, v : Stamps], MaxRows) :
        \A i, j \in DOMAIN rows : i # j => rows[i].path # rows[j].path}

NearestWorlds ==
    {[cls |-> k, disk |-> GammaDisk(src, Cfg(1, <<FromInt(1)>>), rows, Paths(rows), 1, 0)] :
        k \in {"Gamma", "Delta"}, src \in {Src, SrcOdd}, rows \in Tables}
      \cup {[cls |-> "Alpha", disk |-> AlphaDisk(GoodTag, {}, <<1>>, 1)]}

InitNearest == InitWith(NearestWorlds)

SpecNearest == InitNearest /\ [][Next]_vars

-----------------------------------------------------------------------------
(* The tag-file slice: Alpha on every short tag file, and one Gamma        *)
(* directory.                                                              *)

TagKeys == {<<"Fluence", " ">>, <<"fluence">>, <<"exposure">>}

TagValues == {<<" ", "5", "\n">>, <<"1", "2", "s", "\n">>, <<"s", "5", "\n">>,
              <<"BLANK", "\n">>}

\* 'key = value' lines, an empty line and a line with two '='
TagLines ==
    {k \o <<"=">> \o v : k \in TagKeys, v \in TagValues}
      \cup {<<"\n">>, <<"fluence", "=", "5", "=", "\n">>}

OneImage == {[delay |-> Spelling("+", <<1>>, <<0, 0>>), scan |-> <<0, 1>>]}

OneTable == <<Row(ScanImg(1, FromInt(1)), 2), Row(LaserA, 1)>>

TagWorlds ==
    {[cls |-> "Alpha",
      disk |-> AlphaDisk([present |-> TRUE, lines |-> ls], OneImage, <<1>>, 1)] :
        ls \in SeqsUpTo(TagLines, MaxLines)}
      \cup {[cls |-> "Gamma",
             disk |-> GammaDisk(Src, Cfg(1, <<FromInt(1)>>), OneTable, Paths(OneTable), 1, 0)]}

InitTag == InitWith(TagWorlds)

SpecTag == InitTag /\ [][Next]_vars

-----------------------------------------------------------------------------
(* The image slice: every pixel content of the frames, one image per       *)
(* directory.                                                              *)

ImageWorlds ==
    {[cls |-> "Alpha", disk |-> AlphaDisk(GoodTag, OneImage, bgs, pix)] :
        bgs \in SeqsUpTo(Pixels, 2), pix \in Pixels}
      \cup {[cls |-> "Beta",
             disk |-> [BetaDisk(Cfg(1, <<FromInt(1)>>), {BetaFile(1, FromInt(1), "a")}, pix)
                         EXCEPT !.pix_bg = bg]] : pix \in Pixels, bg \in Pixels}
      \cup {[cls |-> k,
             disk |-> GammaDisk(Src, Cfg(1, <<FromInt(1)>>), OneTable, Paths(OneTable),
                                pix, bg)] :
               k \in {"Gamma", "Delta"}, pix \in Pixels, bg \in Pixels}

InitImage == InitWith(ImageWorlds)

SpecImage == InitImage /\ [][Next]_vars

-----------------------------------------------------------------------------
(* Properties.                                                             *)

\* the request of the last call is within the bounds of the dataset
InBounds ==
    /\ \E i \in DOMAIN self.scans : self.scans[i] = call.scan
    /\ \E i \in DOMAIN self.time_points : Val(self.time_points[i]) = Val(call.timedelay)

\* the image the last nearest-lookup read, relative to the dataset directory
Selected == RelativeTo(call.opened[1], disk.source)

\* the rows of timestamps.csv that lie directly under a subdirectory
RowsUnder(sub) ==
    {i \in DOMAIN disk.timestamps : Parent(disk.timestamps[i].path) = <<<<sub>>>>}

\* C1: the image a nearest-timestamp lookup returns is the one of an entry of
\* the requested subdirectory whose timestamp minimizes |v - t| over the
\* entries of that subdirectory: no entry of it is strictly closer to t.
C1_NearestMinimizesDistance ==
    (call.op = "nearest" /\ call.raised = "") =>
        \E i \in RowsUnder(call.sub) :
            /\ disk.timestamps[i].path = Selected
            /\ \A j \in RowsUnder(call.sub) :
                  Abs(disk.timestamps[j].v - call.timestamp)
                      >= Abs(disk.timestamps[i].v - call.timestamp)

\* the subdirectory raw_data takes its background from
BackgroundDir == IF cls \in {"GammaPumpoff", "DeltaPumpoff"} THEN "dark_image"
                 ELSE "laser_background"

\* C2: a nearest-timestamp lookup (called directly, or by raw_data for its
\* background) only ever selects an entry that lies directly under the
\* requested subdirectory, whatever the table and the source directory.
C2_OnlyRequestedSubdirectory ==
    /\ (call.op = "nearest" /\ call.raised = "") =>
           Parent(Selected) = <<<<call.sub>>>>
    /\ (call.op = "raw_data" /\ cls # "Alpha" /\ Len(call.opened) = 2) =>
           Parent(RelativeTo(call.opened[2], disk.source)) = <<<<BackgroundDir>>>>


\* the image file a raw_data request is expected to find is on disk
ExpectedExists ==
    CASE cls = "Alpha" -> AlphaName(call.timedelay, call.scan) \in disk.alpha_files
      [] cls = "Beta" -> BetaMatches(disk, self, call.timedelay, call.scan) # {}
      [] cls \in {"Gamma", "Delta"} -> ScanImg(call.scan, call.timedelay) \in disk.files
      [] OTHER -> <<<<"pump_off">>, PumpoffName(call.timedelay)>> \in disk.files

\* C3: in every generation, a raw_data request with an in-bounds time-delay
\* and scan whose expected image file is not on disk fails with IOError, and
\* with no other kind of failure.
C3_MissingFileIsIOError ==
    (call.op = "raw_data" /\ InBounds /\ ~ExpectedExists) => call.raised = "IOError"

\* C4: constructing any dataset class on a source that is not an existing
\* directory fails with ValueError before any file under the source is
\* opened, and leaves no dataset object.
C4_InvalidSourceFailsFirst ==
    (call.op = "__init__" /\ ~disk.isdir) =>
        /\ call.raised = "ValueError"
        /\ call.opened = <<>>
        /\ self = NoObject

C4_Witness ==
    /\ call.op = "__init__" /\ ~disk.isdir
    /\ cls = "DeltaPumpoff"
    /\ call.raised = "ValueError"

\* C5: a raw_data or electron_count request whose time-delay is not in
\* time_points or whose scan is not in scans ends in ValueError, never in
\* IOError or a returned value, opens no file and changes neither the
\* dataset nor its cache.
C5_BoundsCheckedFirst ==
    [][(call'.op \in {"raw_data", "electron_count"} /\ ~InBounds') =>
           /\ call'.raised = "ValueError"
           /\ call'.value = <<>>
           /\ call'.opened = <<>>
           /\ self' = self
           /\ cache' = cache]_vars

\* an out-of-bounds request for an image that is on disk
C5_Witness ==
    /\ call.op = "raw_data" /\ ~InBounds /\ ExpectedExists
    /\ call.raised = "ValueError"

StrictlyAscending(tp) == \A i, j \in DOMAIN tp : i < j => Val(tp[i]) < Val(tp[j])

\* C6: after a successful construction time_points holds unique values in
\* strictly ascending order, whatever the file names (Alpha), the list of
\* metadata.cfg (Beta, Gamma, Delta) or the timestamp table (pump-off).
C6_TimePointsStrictlyAscending ==
    (call.op = "__init__" /\ call.raised = "") => StrictlyAscending(self.time_points)

\* the scan numbers of the image files of an Alpha directory
FileScans == {NumOf(f.scan) : f \in disk.alpha_files}

ScansAsDocumented(least) ==
    /\ NoDup(self.scans)
    /\ \A i \in DOMAIN self.scans : self.scans[i] >= least
    /\ cls = "Alpha" => Range(self.scans) = FileScans
    /\ cls \in {"Beta", "Gamma", "Delta"} =>
           self.scans = [i \in 1..disk.cfg.nscans |-> i]
    /\ cls \in {"GammaPumpoff", "DeltaPumpoff"} => self.scans = <<1>>

\* C7 as stated: after a successful construction scans holds positive
\* integers without duplicates: in Alpha exactly the scan numbers of the
\* nscan.NN fields, each >= 1; in Beta, Gamma, Delta exactly 1..nscans.
C7_ScansPositive ==
    (call.op = "__init__" /\ call.raised = "") => ScansAsDocumented(1)

\* C7 as amended: the same with scans >= 0: an Alpha file numbered nscan.00
\* puts scan 0 into scans.
C7_ScansNonNegative ==
    (call.op = "__init__" /\ call.raised = "") => ScansAsDocumented(0)

C7_Witness ==
    /\ call.op = "__init__" /\ call.raised = "" /\ cls = "Alpha"
    /\ Range(self.scans) = {0, 2}


-----------------------------------------------------------------------------
(* The tag file, read as the documentation of parse_tagfile describes it.  *)

TagFileLines == disk.tagfile.lines

Eq(line) == CHOOSE i \in DOMAIN line : line[i] = "="

\* the text left of "=", without whitespace, in lower case
KeyOf(line) == Lower(RemoveSpace(SubSeq(line, 1, Eq(line) - 1)))

\* the text right of "=", without whitespace
TextOf(line) == RemoveSpace(SubSeq(line, Eq(line) + 1, Len(line)))

\* one trailing "s" taken off
WithoutUnit(text) ==
    IF text # <<>> /\ text[Len(text)] = "s" THEN SubSeq(text, 1, Len(text) - 1)
    ELSE text

\* every leading and every trailing "s" taken off
WithoutS(text) ==
    LET NonS == {i \in DOMAIN text : text[i] # "s"}
    IN  IF NonS = {} THEN <<>> ELSE SubSeq(text, Least(NonS), Greatest(NonS))

FloatOrNone(text) == IF IsNumeric(text) THEN <<FloatOf(text)>> ELSE <<>>

\* the unit suffix is stripped for exposure only
ValueAsStated(line) ==
    IF KeyOf(line) = <<"exposure">> THEN FloatOrNone(WithoutUnit(TextOf(line)))
    ELSE FloatOrNone(TextOf(line))

\* every "s" at either end is stripped, for every key
ValueAsCoded(line) == FloatOrNone(WithoutS(TextOf(line)))

LastLineOf(key) ==
    TagFileLines[Greatest({i \in DOMAIN TagFileLines : KeyOf(TagFileLines[i]) = key})]

\* the dictionary returned has one entry per normalized key, the last line
\* of a key deciding its value
TagfileParsedAs(metadata, expected(_)) ==
    /\ NoDup([i \in DOMAIN metadata |-> metadata[i].k])
    /\ {metadata[i].k : i \in DOMAIN metadata}
           = {KeyOf(TagFileLines[i]) : i \in DOMAIN TagFileLines}
    /\ \A i \in DOMAIN metadata :
           metadata[i].v = expected(LastLineOf(metadata[i].k))

\* C8 as stated: parse_tagfile maps the 'key = value' lines to one entry per
\* normalized key (whitespace removed, lower case), the last line of a key
\* winning; the value is the float of the text right of '=' when that text
\* is numeric, a trailing 's' being stripped for exposure, and None otherwise.
C8_TagfileAsStated ==
    (call.op = "parse_tagfile" /\ call.raised = "") =>
        TagfileParsedAs(call.value[1], ValueAsStated)

\* C8 as amended: the same, with the value being the float of the text right
\* of '=' after every leading and every trailing 's' is stripped, whatever
\* the key, and None when what is left is not numeric.
C8_TagfileAsCoded ==
    (call.op = "parse_tagfile" /\ call.raised = "") =>
        TagfileParsedAs(call.value[1], ValueAsCoded)

\* two lines of one normalized key, the last one 'fluence=s5'
C8_Witness ==
    /\ call.op = "parse_tagfile" /\ call.raised = ""
    /\ Len(TagFileLines) = 2
    /\ KeyOf(TagFileLines[1]) = KeyOf(TagFileLines[2])
    /\ TagFileLines[1] # TagFileLines[2]
    /\ TextOf(TagFileLines[2]) = <<"s", "5">>
    /\ Len(call.value[1]) = 1
    /\ call.value[1][1].v = <<5>>

-----------------------------------------------------------------------------
(* Background subtraction.                                                 *)

\* the data frame minus the average of the background frames, times their number
AlphaDifference == Len(disk.backgrounds) * disk.pix_data - SumSeq(disk.backgrounds)

\* C9: Alpha raw_data with bgr=True returns max(image - background, 0), so
\* nothing negative; with bgr=False it returns the image as read, and the
\* background is neither computed nor read.  Gamma and Delta raw_data with
\* bgr=True return image - background without the clamp.
C9_ClampInAlphaOnly ==
    [][(call'.op = "raw_data" /\ call'.raised = "") =>
           /\ (cls = "Alpha" /\ call'.bgr) =>
                  /\ call'.value = <<Image(Max(AlphaDifference, 0), Len(disk.backgrounds))>>
                  /\ call'.value[1].num >= 0
           /\ (cls = "Alpha" /\ ~call'.bgr) =>
                  /\ call'.value = <<Image(disk.pix_data, 1)>>
                  /\ Len(call'.opened) = 1
                  /\ cache' = cache
           /\ (cls \in {"Gamma", "Delta"} /\ call'.bgr) =>
                  call'.value = <<Image(disk.pix_data - disk.pix_bg, 1)>>]_vars

\* an Alpha image darker than its background, clamped to zero
C9_Witness ==
    /\ call.op = "raw_data" /\ call.raised = "" /\ cls = "Alpha" /\ call.bgr
    /\ AlphaDifference < 0
    /\ call.value[1].num = 0

\* C10: Beta raw_data returns, for every in-bounds request whose file
\* exists, the stored image minus the dark background.
C10_BetaDarkRemoved ==
    (call.op = "raw_data" /\ call.raised = "" /\ cls = "Beta") =>
        call.value = <<Image(disk.pix_data - disk.pix_bg, 1)>>

-----------------------------------------------------------------------------
(* The electron-count slice: Gamma and Delta on directories whose          *)
(* ecounts.csv records the pump-on frames, and one Alpha directory.        *)

\* the rows of ecounts.csv: the counts of one or two pump-on frames
CountTables ==
    {<<Row(ScanImg(1, FromInt(1)), e)>> : e \in Stamps}
      \cup {<<Row(ScanImg(1, FromInt(1)), e), Row(ScanImg(2, FromInt(2)), f)>> :
               e, f \in Stamps}

CountWorlds ==
    UNION {{[cls |-> k,
             disk |-> [GammaDisk(Src, Cfg(n, <<FromInt(1), FromInt(2)>>), OneTable, fs, 1, 0)
                         EXCEPT !.ecounts = rows]] :
               k \in {"Gamma", "Delta"}, n \in 1..MaxScans, fs \in SUBSET Paths(rows)} :
           rows \in CountTables}
      \cup {[cls |-> "Alpha", disk |-> AlphaDisk(GoodTag, OneImage, <<1>>, 1)]}

InitCount == InitWith(CountWorlds)

SpecCount == InitCount /\ [][Next]_vars

\* the rows of ecounts.csv recorded for the pump-on frame of the request
CountRows ==
    {i \in DOMAIN disk.ecounts :
        disk.ecounts[i].path = ScanImg(call.scan, call.timedelay)}

\* C11: electron_count of Gamma and Delta returns, for an in-bounds request
\* whose frame scan_NNNN/pumpon_<delay>ps.tif exists, the entry of the
\* electron-count table recorded for that frame, and fails with IOError when
\* the frame does not exist.
C11_ElectronCountOfFrame ==
    (call.op = "electron_count" /\ cls \in {"Gamma", "Delta"} /\ InBounds) =>
        IF ScanImg(call.scan, call.timedelay) \in disk.files
        THEN \A i \in CountRows :
                 call.raised = "" /\ call.value = <<disk.ecounts[i].v>>
        ELSE call.raised = "IOError"

-----------------------------------------------------------------------------
(* The cache slice: two Alpha datasets in one process, each on a directory *)
(* with its own background frames, and one Gamma directory.                *)

CacheWorlds ==
    {[cls |-> "Alpha",
      disk |-> [AlphaDisk(GoodTag, OneImage, bgs, 1) EXCEPT !.other_backgrounds = obs]] :
        bgs \in SeqsUpTo(Pixels, 2), obs \in SeqsUpTo(Pixels, 2)}
      \cup {[cls |-> "Gamma",
             disk |-> GammaDisk(Src, Cfg(1, <<FromInt(1)>>), OneTable, Paths(OneTable), 1, 0)]}

InitCache == InitWith(CacheWorlds)

SpecCache == InitCache /\ [][Next]_vars

\* the average of the background frames of the second dataset
OtherAverage == Image(SumSeq(disk.other_backgrounds), Len(disk.other_backgrounds))

\* C12: the memoized background is per instance: whatever the interleaving
\* of accesses over two datasets, an access returns the average of the
\* dataset's own background frames, and once a dataset's background has been
\* computed no later access on that dataset reads the background files again.
C12_BackgroundPerInstance ==
    [][/\ (call'.op = "raw_data" /\ cls = "Alpha" /\ call'.bgr /\ call'.raised = "") =>
              /\ call'.value = <<Image(Max(AlphaDifference, 0), Len(disk.backgrounds))>>
              /\ "self" \in computed => Len(call'.opened) = 1
       /\ (call'.op = "other_background" /\ call'.raised = "") =>
              /\ call'.value = <<OtherAverage>>
              /\ "other" \in computed => call'.opened = <<>>]_vars

-----------------------------------------------------------------------------
(* The file-name slice: Alpha on directories whose image files follow the  *)
(* template 'data.timedelay.+1.00.nscan.04.pumpon.tif', and one Gamma      *)
(* directory.                                                              *)

\* '+0.00', '-0.00', '+1.00', '-0.50' and '+2.50'
TemplateSpellings ==
    {Spelling("+", <<0>>, <<0, 0>>), Spelling("-", <<0>>, <<0, 0>>),
     Spelling("+", <<1>>, <<0, 0>>), Spelling("-", <<0>>, <<5, 0>>),
     Spelling("+", <<2>>, <<5, 0>>)}

TemplateNames == [delay : TemplateSpellings, scan : {<<0, 1>>, <<0, 2>>}]

NameWorlds ==
    {[cls |-> "Alpha", disk |-> AlphaDisk(GoodTag, fs, <<1>>, 1)] :
        fs \in {x \in SUBSET TemplateNames : Cardinality(x) \in 1..MaxFiles}}
      \cup {[cls |-> "Gamma",
             disk |-> GammaDisk(Src, Cfg(1, <<FromInt(1)>>), OneTable, Paths(OneTable), 1, 0)]}

InitName == InitWith(NameWorlds)

SpecName == InitName /\ [][Next]_vars

\* the image files whose recorded delay and scan are those of the request
FilesRequested ==
    {f \in disk.alpha_files :
        ParseFloat(f.delay) = call.timedelay /\ NumOf(f.scan) = call.scan}

\* C13: for every image file that follows the Alpha template, the
\* constructor records its delay in time_points and its scan in scans, and
\* raw_data called with the recorded delay and scan builds the name of that
\* very file and reads it, '-0.00' included.
C13_FilenameRoundTrip ==
    /\ (call.op = "__init__" /\ cls = "Alpha" /\ call.raised = "") =>
           \A f \in disk.alpha_files :
               /\ \E i \in DOMAIN self.time_points : self.time_points[i] = ParseFloat(f.delay)
               /\ NumOf(f.scan) \in Range(self.scans)
    /\ (call.op = "raw_data" /\ cls = "Alpha" /\ InBounds) =>
           \A f \in FilesRequested :
               /\ call.raised = ""
               /\ call.opened[1] = AlphaPath(disk.source, f)

-----------------------------------------------------------------------------
(* The pump-off slice: the diagnostic variants on timestamp tables of      *)
(* pump-off and dark frames, each pump-off frame named after its epoch,    *)
(* and one Alpha directory.                                                *)

DarkB == <<<<"dark_image">>, <<"e.tif">>>>

\* the rows timestamps.csv can hold: a pump-off frame with the epoch of its
\* name, a dark frame with any epoch
PumpRows ==
    {Row(PumpOff(n), n) : n \in 1..2} \cup {Row(p, v) : p \in {Dark, DarkB}, v \in Stamps}

PumpTables ==
    {rows \in SeqsUpTo(PumpRows, MaxRows) :
        \A i, j \in DOMAIN rows : i # j => rows[i].path # rows[j].path}

PumpWorlds ==
    {[cls |-> k, disk |-> GammaDisk(Src, Cfg(1, <<FromInt(1)>>), rows, Paths(rows), 1, 0)] :
        k \in {"GammaPumpoff", "DeltaPumpoff"}, rows \in PumpTables}
      \cup {[cls |-> "Alpha", disk |-> AlphaDisk(GoodTag, OneImage, <<1>>, 1)]}

InitPump == InitWith(PumpWorlds)

SpecPump == InitPump /\ [][Next]_vars

\* the number of pump-off rows of the table with timestamp v
PumpoffCount(v) == Cardinality({i \in RowsUnder("pump_off") : disk.timestamps[i].v = v})

\* time_points is the ascending list of the timestamps of the pump-off rows
PumpoffTimePoints(tp) ==
    /\ Sorted(tp)
    /\ Len(tp) = Cardinality(RowsUnder("pump_off"))
    /\ \A v \in Stamps :
           Cardinality({i \in DOMAIN tp : tp[i] = FromInt(v)}) = PumpoffCount(v)

\* the rows of the pump-off frame of the request
PumpoffRows ==
    {i \in DOMAIN disk.timestamps :
        disk.timestamps[i].path = <<<<"pump_off">>, PumpoffName(call.timedelay)>>}

\* the dark frame opened is one of the dark rows nearest to timestamp t
NearestDarkOpened(t) ==
    /\ Len(call.opened) = 2
    /\ \E i \in RowsUnder("dark_image") :
          /\ disk.timestamps[i].path = RelativeTo(call.opened[2], disk.source)
          /\ \A j \in RowsUnder("dark_image") :
                Abs(disk.timestamps[j].v - t) >= Abs(disk.timestamps[i].v - t)

\* C14: constructing a pump-off dataset (Gamma or Delta variant) on a valid
\* source succeeds with scans = [1] and time_points the ascending timestamps
\* of exactly the pump_off rows; raw_data of such a time point reads
\* pump_off/pump_off_epoch_<timestamp>s.tif and, with bgr=True, subtracts the
\* dark image nearest to that frame's timestamp.
C14_PumpoffDataset ==
    /\ (call.op = "__init__" /\ cls \in {"GammaPumpoff", "DeltaPumpoff"}
            /\ disk.isdir /\ disk.cfg.present) =>
           /\ call.raised = ""
           /\ self.scans = <<1>>
           /\ PumpoffTimePoints(self.time_points)
    /\ (call.op = "raw_data" /\ cls \in {"GammaPumpoff", "DeltaPumpoff"} /\ InBounds) =>
           \A i \in PumpoffRows :
               (disk.timestamps[i].path \in disk.files /\ RowsUnder("dark_image") # {}) =>
                   /\ call.raised = ""
                   /\ call.opened[1] = Join(disk.source, disk.timestamps[i].path)
                   /\ call.bgr => NearestDarkOpened(disk.timestamps[i].v)

====
